---------------------------- MODULE Spec2Model ----------------------------
(***************************************************************************)
(* Model of src/app.py: the single-coin analyzer.                          *)
(*   get_historical_data : join of the three raw streams, the ratio        *)
(*                         column, and the two downsampling paths          *)
(*   calculate_rsi       : RSI over a rolling simple moving average        *)
(*   main                : the page script, one action per stage           *)
(* Floating point values are modelled as exact rationals extended with     *)
(* NaN and the two infinities; rounding error is not modelled.             *)
(***************************************************************************)
EXTENDS Integers, Sequences, FiniteSets, TLC

(***************************************************************************)
(* Program constants                                                       *)
(***************************************************************************)
\* len(df) > 1000 (line 53) and len(df) // 1000 + 1 (line 62)
Threshold == 1000
\* days > 7 (lines 35, 54)
ShortRange == 7
\* calculate_rsi(prices, period=14)
Period == 14
\* resample("D"): one bin per calendar day of 86 400 000 ms
MsPerDay == 86400000
\* the two RSI levels of the trade signal
BuyLevel == 30
SellLevel == 70
\* df_table.head(50)
HeadRows == 50

(***************************************************************************)
(* Bounds of the explored inputs                                           *)
(***************************************************************************)
\* longest raw stream of the exhaustively enumerated small responses
MaxLen == 2
\* largest market cap base of the small responses
MaxVal == 1
\* joined row counts Threshold .. Threshold + MaxOver of the large responses
MaxOver == 2
\* longest price shape of the mid-sized responses beyond the RSI period
MaxTail == 2

(***************************************************************************)
(* float64 as an exact rational with NaN and +-inf.                        *)
(*   [k |-> "num", n, d]  the rational n/d, d > 0, in lowest terms         *)
(*   [k |-> "inf", n, d]  n = 1: +inf, n = -1: -inf                        *)
(*   [k |-> "nan", n, d]  NaN                                              *)
(***************************************************************************)
Abs(x) == IF x < 0 THEN -x ELSE x

Sign(x) == IF x < 0 THEN -1 ELSE IF x > 0 THEN 1 ELSE 0

RECURSIVE GCD(_, _)
GCD(a, b) == IF b = 0 THEN a ELSE GCD(b, a % b)

NaN == [k |-> "nan", n |-> 0, d |-> 1]

Inf(s) == [k |-> "inf", n |-> s, d |-> 1]

Num(n, d) ==
    IF d = 1 THEN [k |-> "num", n |-> n, d |-> 1]
    ELSE LET g == GCD(Abs(n), Abs(d))
             s == Sign(d)
         IN  [k |-> "num", n |-> (s * n) \div g, d |-> (s * d) \div g]

I(n) == [k |-> "num", n |-> n, d |-> 1]

IsNaN(a) == a.k = "nan"

IsNum(a) == a.k = "num"

FNeg(a) == IF IsNaN(a) THEN NaN ELSE [a EXCEPT !.n = -a.n]

FAdd(a, b) ==
    IF IsNaN(a) \/ IsNaN(b) THEN NaN
    ELSE IF a.k = "inf" /\ b.k = "inf" THEN (IF a.n = b.n THEN a ELSE NaN)
    ELSE IF a.k = "inf" THEN a
    ELSE IF b.k = "inf" THEN b
    ELSE Num(a.n * b.d + b.n * a.d, a.d * b.d)

FSub(a, b) == FAdd(a, FNeg(b))

FMul(a, b) ==
    IF IsNaN(a) \/ IsNaN(b) THEN NaN
    ELSE IF a.k = "inf" \/ b.k = "inf"
         THEN (IF a.n = 0 \/ b.n = 0 THEN NaN ELSE Inf(Sign(a.n) * Sign(b.n)))
    ELSE Num(a.n * b.n, a.d * b.d)

\* IEEE division as numpy and pandas perform it: x/0 is +-inf, 0/0 is NaN,
\* x/inf is 0; no exception is raised.
FDiv(a, b) ==
    IF IsNaN(a) \/ IsNaN(b) THEN NaN
    ELSE IF b.k = "inf" THEN (IF a.k = "inf" THEN NaN ELSE I(0))
    ELSE IF b.n = 0 THEN (IF a.n = 0 THEN NaN ELSE Inf(Sign(a.n)))
    ELSE IF a.k = "inf" THEN Inf(Sign(a.n) * Sign(b.n))
    ELSE Num(a.n * b.d, a.d * b.n)

\* a < b; every comparison with NaN is False
FLt(a, b) ==
    IF IsNaN(a) \/ IsNaN(b) THEN FALSE
    ELSE IF a.k = "inf" THEN a.n = -1 /\ ~(b.k = "inf" /\ b.n = -1)
    ELSE IF b.k = "inf" THEN b.n = 1
    ELSE a.n * b.d < b.n * a.d

FGt(a, b) == FLt(b, a)

\* a != b; NaN differs from everything
FNe(a, b) == IsNaN(a) \/ IsNaN(b) \/ a # b

FLe(a, b) == FLt(a, b) \/ (~IsNaN(a) /\ a = b)


(***************************************************************************)
(* Small helpers over sequences.  Long sequences are folded by halving so  *)
(* that the depth of the recursion stays logarithmic.                      *)
(***************************************************************************)
Min2(a, b) == IF a < b THEN a ELSE b

SetMin(S) == CHOOSE x \in S : \A y \in S : x <= y

SetMax(S) == CHOOSE x \in S : \A y \in S : x >= y

(***************************************************************************)
(* pandas objects                                                          *)
(*   a DataFrame is the sequence of its rows, each row a record            *)
(*   a Timestamp is [day, ms]: the calendar day since the epoch and the    *)
(*   millisecond within that day                                           *)
(***************************************************************************)
\* a sequence given by a rule, laid out as the array of its values (numpy
\* and pandas compute a column once, not on each access)
Array(f) == SubSeq(f, 1, Len(f))

\* the column `col` of a DataFrame
Column(df, col) == Array([i \in 1..Len(df) |-> df[i][col]])

\* mutant of ToDatetime: the time of day is dropped
ToDatetimeNormalized(ms) == [day |-> ms \div MsPerDay, ms |-> 0]

\* pd.to_datetime(df["time"], unit="ms")
ToDatetime(ms) == [day |-> ms \div MsPerDay, ms |-> ms % MsPerDay]

\* pd.DataFrame(data[key], columns=["time", col]) of a list of [ms, value]
\* pairs; JSON numbers become float64 values
Frame(pairs, col) ==
    Array([i \in 1..Len(pairs) |-> [time |-> pairs[i][1]] @@ (col :> I(pairs[i][2]))])

\* positions lo..hi of a key column grouped by key: key -> its positions,
\* ascending (the hash table of a join or of a group-by)
RECURSIVE GroupRange(_, _, _)
GroupRange(keys, lo, hi) ==
    IF lo = hi THEN (keys[lo] :> <<lo>>)
    ELSE LET mid == (lo + hi) \div 2
             a == GroupRange(keys, lo, mid)
             b == GroupRange(keys, mid + 1, hi)
         IN  [t \in DOMAIN a \cup DOMAIN b |->
                 (IF t \in DOMAIN a THEN a[t] ELSE <<>>) \o
                 (IF t \in DOMAIN b THEN b[t] ELSE <<>>)]

GroupBy(keys) == IF Len(keys) = 0 THEN <<>> ELSE GroupRange(keys, 1, Len(keys))

\* the rows of `right` (grouped by key in g) whose key equals t, in order
Matches(g, t) == IF t \in DOMAIN g THEN g[t] ELSE <<>>

\* left.merge(right, on="time") restricted to the left rows lo..hi: an inner
\* join keeping the order of the left keys; a left row is paired with EVERY
\* right row of the same key
RECURSIVE MergeRange(_, _, _, _, _)
MergeRange(left, right, g, lo, hi) ==
    IF lo > hi THEN <<>>
    ELSE IF lo = hi
         THEN LET m == Matches(g, left[lo].time)
              IN  [k \in 1..Len(m) |-> left[lo] @@ right[m[k]]]
    ELSE LET mid == (lo + hi) \div 2
         IN  MergeRange(left, right, g, lo, mid) \o
             MergeRange(left, right, g, mid + 1, hi)

Merge(left, right) ==
    MergeRange(left, right, GroupBy(Column(right, "time")), 1, Len(left))

\* mutant of VolumePercentMc: a fraction instead of a percentage
VolumeOverMc(volume, market_cap) == FDiv(volume, market_cap)

\* (df["volume"] / df["market_cap"]) * 100
VolumePercentMc(volume, market_cap) == FMul(FDiv(volume, market_cap), I(100))

\* lines 49-50 on the merged frame: the time conversion and the ratio
\* column
Derived(m) ==
    Array([i \in 1..Len(m) |->
            [time              |-> ToDatetime(m[i].time),
             price             |-> m[i].price,
             volume            |-> m[i].volume,
             market_cap        |-> m[i].market_cap,
             volume_percent_mc |-> VolumePercentMc(m[i].volume, m[i].market_cap)]])

\* lines 44-50: the three frames, the join, the time conversion and the
\* ratio column
JoinFrames(data) ==
    Derived(Merge(Merge(Frame(data.prices, "price"),
                        Frame(data.total_volumes, "volume")),
                  Frame(data.market_caps, "market_cap")))

(***************************************************************************)
(* Downsampling                                                            *)
(***************************************************************************)
\* sum of the non-NaN values of column `col` over the rows idx[lo..hi]
RECURSIVE SumRange(_, _, _, _, _)
SumRange(df, col, idx, lo, hi) ==
    IF lo > hi THEN I(0)
    ELSE IF lo = hi
         THEN (IF IsNaN(df[idx[lo]][col]) THEN I(0) ELSE df[idx[lo]][col])
    ELSE LET mid == (lo + hi) \div 2
         IN  FAdd(SumRange(df, col, idx, lo, mid), SumRange(df, col, idx, mid + 1, hi))

\* number of non-NaN values of column `col` over the rows idx[lo..hi]
RECURSIVE CountRange(_, _, _, _, _)
CountRange(df, col, idx, lo, hi) ==
    IF lo > hi THEN 0
    ELSE IF lo = hi THEN (IF IsNaN(df[idx[lo]][col]) THEN 0 ELSE 1)
    ELSE LET mid == (lo + hi) \div 2
         IN  CountRange(df, col, idx, lo, mid) + CountRange(df, col, idx, mid + 1, hi)

\* agg "sum": NaN is skipped, an empty bin sums to 0
AggSum(df, col, idx) == SumRange(df, col, idx, 1, Len(idx))

\* agg "mean": NaN is skipped, a bin without values is NaN
AggMean(df, col, idx) ==
    LET c == CountRange(df, col, idx, 1, Len(idx))
    IN  IF c = 0 THEN NaN ELSE FDiv(SumRange(df, col, idx, 1, Len(idx)), I(c))

\* .agg({"price": "mean", "volume": "sum", "market_cap": "mean",
\* "volume_percent_mc": "mean"}) of one daily bin: the rows idx of df, labelled
\* with the start of the day
DayRow(df, day, idx) ==
    [time              |-> [day |-> day, ms |-> 0],
     price             |-> AggMean(df, "price", idx),
     volume            |-> AggSum(df, "volume", idx),
     market_cap        |-> AggMean(df, "market_cap", idx),
     volume_percent_mc |-> AggMean(df, "volume_percent_mc", idx)]

\* the elements of a finite set of integers, ascending
RECURSIVE Ascending(_)
Ascending(S) == IF S = {} THEN <<>>
                ELSE <<SetMin(S)>> \o Ascending(S \ {SetMin(S)})

\* mutant of DayRows: only the days that have rows (a group-by on the date)
DayRowsWithData(df, g, first, last) ==
    Array([k \in 1..Len(Ascending(DOMAIN g)) |->
              DayRow(df, Ascending(DOMAIN g)[k], Matches(g, Ascending(DOMAIN g)[k]))])

\* the bins of the days first..last, g being the rows grouped by day
DayRows(df, g, first, last) ==
    Array([k \in 1..(last - first + 1) |->
              DayRow(df, first + k - 1, Matches(g, first + k - 1))])

\* the calendar days of the earliest and of the latest row
FirstDay(df) == SetMin({df[i].time.day : i \in 1..Len(df)})

LastDay(df) == SetMax({df[i].time.day : i \in 1..Len(df)})

\* the rows grouped by calendar day
GroupByDay(df) == GroupBy(Array([i \in 1..Len(df) |-> df[i].time.day]))

\* df.resample("D", on="time").agg({...}).reset_index(): one row for every
\* calendar day from the day of the earliest row to the day of the latest
\* row; a day without rows is kept
Resample(df) == DayRows(df, GroupByDay(df), FirstDay(df), LastDay(df))

\* df.iloc[::n]: the rows at positions 0, n, 2n, ...
Stride(df, n) == [k \in 1..((Len(df) + n - 1) \div n) |-> df[(k - 1) * n + 1]]

\* mutant of Downsample: the threshold itself is downsampled too
DownsampleFromThreshold(df, days) ==
    IF Len(df) >= Threshold
    THEN IF days > ShortRange
         THEN Resample(df)
         ELSE Stride(df, Len(df) \div Threshold + 1)
    ELSE df

\* mutant of Downsample: the stride without its + 1
DownsampleShortStride(df, days) ==
    IF Len(df) > Threshold
    THEN IF days > ShortRange
         THEN Resample(df)
         ELSE Stride(df, Len(df) \div Threshold)
    ELSE df

\* lines 53-63
Downsample(df, days) ==
    IF Len(df) > Threshold
    THEN IF days > ShortRange
         THEN Resample(df)
         ELSE Stride(df, Len(df) \div Threshold + 1)
    ELSE df

(***************************************************************************)
(* calculate_rsi                                                           *)
(***************************************************************************)
\* prices.diff(): the first delta is NaN
Diff(prices) ==
    <<NaN>> \o [i \in 1..(Len(prices) - 1) |-> FSub(prices[i + 1], prices[i])]

\* np.where(delta > 0, delta, 0)
Gain(delta) == Array([i \in 1..Len(delta) |->
                        IF FGt(delta[i], I(0)) THEN delta[i] ELSE I(0)])

\* mutant of Loss: the falls keep their sign
LossSigned(delta) == Array([i \in 1..Len(delta) |->
                              IF FLt(delta[i], I(0)) THEN delta[i] ELSE I(0)])

\* np.where(delta < 0, -delta, 0)
Loss(delta) == Array([i \in 1..Len(delta) |->
                        IF FLt(delta[i], I(0)) THEN FNeg(delta[i]) ELSE I(0)])

\* sum of x[lo..hi]
RECURSIVE SumSeq(_, _, _)
SumSeq(x, lo, hi) == IF lo > hi THEN I(0) ELSE FAdd(SumSeq(x, lo, hi - 1), x[hi])

\* pd.Series(x).rolling(window=period, min_periods=1).mean(): at row i the
\* mean of the last min(i, period) values
RollingMean(x, period) ==
    Array([i \in 1..Len(x) |->
              LET lo == IF i > period THEN i - period + 1 ELSE 1
              IN  FDiv(SumSeq(x, lo, i), I(i - lo + 1))])

\* mutant of RelativeStrength: the division without its guard
RelativeStrengthUnguarded(avg_gain, avg_loss) == FDiv(avg_gain, avg_loss)

\* np.where(avg_loss != 0, avg_gain / avg_loss, np.inf)
RelativeStrength(avg_gain, avg_loss) ==
    IF FNe(avg_loss, I(0)) THEN FDiv(avg_gain, avg_loss) ELSE Inf(1)

\* 100 - (100 / (1 + rs))
RsiOf(rs) == FSub(I(100), FDiv(I(100), FAdd(I(1), rs)))

CalculateRsi(prices, period) ==
    LET delta    == Diff(prices)
        avg_gain == RollingMean(Gain(delta), period)
        avg_loss == RollingMean(Loss(delta), period)
    IN  [i \in 1..Len(prices) |-> RsiOf(RelativeStrength(avg_gain[i], avg_loss[i]))]

(***************************************************************************)
(* main: the trade signal and the signal table                             *)
(***************************************************************************)
\* mutant of Signal: the two levels count as Buy and Sell
SignalInclusive(x) ==
    IF FLe(x, I(BuyLevel)) THEN "Mua"
    ELSE IF FLe(I(SellLevel), x) THEN "Ban"
    ELSE "Giu"

\* "Mua" if x < 30 else ("Ban" if x > 70 else "Giu"): Buy, Sell, Hold (the
\* labels without their diacritics)
Signal(x) ==
    IF FLt(x, I(BuyLevel)) THEN "Mua"
    ELSE IF FGt(x, I(SellLevel)) THEN "Ban"
    ELSE "Giu"

\* round(x, 2): to the nearest multiple of 0.01, ties to the even one; NaN
\* and the infinities are kept
Round2(x) ==
    IF ~IsNum(x) THEN x
    ELSE LET q == (x.n * 100) \div x.d
             r == (x.n * 100) % x.d
             up == 2 * r > x.d \/ (2 * r = x.d /\ q % 2 = 1)
         IN  Num(IF up THEN q + 1 ELSE q, 100)

\* epoch milliseconds of a Timestamp: the sort key
Epoch(t) == t.day * MsPerDay + t.ms

StrictlyAscending(rows) ==
    \A i \in 1..(Len(rows) - 1) : Epoch(rows[i].time) < Epoch(rows[i + 1].time)

Reverse(rows) == [i \in 1..Len(rows) |-> rows[Len(rows) + 1 - i]]

\* row r put into the sorted sequence `sorted`, after the rows it does not
\* precede
Insert(sorted, r, ascending) ==
    LET before(a, b) == IF ascending THEN Epoch(a.time) < Epoch(b.time)
                        ELSE Epoch(a.time) > Epoch(b.time)
        k == Cardinality({i \in 1..Len(sorted) : ~before(r, sorted[i])})
    IN  SubSeq(sorted, 1, k) \o <<r>> \o SubSeq(sorted, k + 1, Len(sorted))

RECURSIVE InsertionSort(_, _, _)
InsertionSort(rows, n, ascending) ==
    IF n = 0 THEN <<>>
    ELSE Insert(InsertionSort(rows, n - 1, ascending), rows[n], ascending)

\* df_table.sort_values("time", ascending=...).  Rows of equal time keep
\* their relative order here; the sort kind does not fix the order among
\* ties and nothing below depends on it.
SortValues(rows, ascending) ==
    IF StrictlyAscending(rows)
    THEN (IF ascending THEN rows ELSE Reverse(rows))
    ELSE InsertionSort(rows, Len(rows), ascending)

\* df_table.head(50)
HeadRowsOf(rows, n) == SubSeq(rows, 1, Min2(n, Len(rows)))

\* lines 150-154: the table columns, the Signal column computed from the
\* RSI column before that column is rounded
TableRows(df) ==
    Array([i \in 1..Len(df) |->
        [time              |-> df[i].time,
         price             |-> Round2(df[i].price),
         RSI               |-> Round2(df[i].RSI),
         volume_percent_mc |-> Round2(df[i].volume_percent_mc),
         Signal            |-> Signal(df[i].RSI)]])

(***************************************************************************)
(* The explored market_chart responses.  A response is                     *)
(*   [status, prices, total_volumes, market_caps]                          *)
(* with each stream a sequence of <<epoch ms, value>> pairs.               *)
(***************************************************************************)
Response(p, v, m) ==
    [status |-> "ok", prices |-> p, total_volumes |-> v, market_caps |-> m]

\* a request that failed, or a payload with an "error" key
ErrorResponse ==
    [status |-> "error", prices |-> <<>>, total_volumes |-> <<>>, market_caps |-> <<>>]

NoResponse ==
    [status |-> "none", prices |-> <<>>, total_volumes |-> <<>>, market_caps |-> <<>>]

\* the timestamps of the small responses: repeated and unmatched keys occur
SmallTimes == {0, 1}

TimeSeqs == UNION {[1..n -> SmallTimes] : n \in 0..MaxLen}

\* small responses: every choice of three key sequences, in any order;
\* prices rise, volumes start at 0, market caps start at m0 (0: no cap)
SmallResponses ==
    {Response([i \in 1..Len(tp) |-> <<tp[i], 100 + i>>],
              [i \in 1..Len(tv) |-> <<tv[i], i - 1>>],
              [i \in 1..Len(tm) |-> <<tm[i], m0 + i - 1>>]) :
        <<tp, tv, tm, m0>> \in TimeSeqs \X TimeSeqs \X TimeSeqs \X (0..MaxVal)}

\* price of row i of a mid-sized response: two free steps, then a trend
ShapePrice(d1, d2, tail, i) ==
    IF i = 1 THEN 100
    ELSE IF i = 2 THEN 100 + d1
    ELSE 100 + d1 + d2 + (i - 3) * tail

\* mid-sized responses: hourly rows with the same keys in the three
\* streams, long enough for the rolling window to slide
MidResponses ==
    {Response([i \in 1..n |-> <<i * 3600000, ShapePrice(d1, d2, tail, i)>>],
              [i \in 1..n |-> <<i * 3600000, 1 + (i % 3)>>],
              [i \in 1..n |-> <<i * 3600000, 1 + (i % 2)>>]) :
        <<n, d1, d2, tail>> \in
            (1..(Period + MaxTail)) \X {-7, -3, 0, 3, 7} \X {-7, -3, 0, 3, 7} \X {-1, 0, 1}}

\* key of row i of a large response: evenly spaced, the last row `gap` days
\* later
LargeTime(n, step, gap, i) == i * step + (IF i = n THEN gap * MsPerDay ELSE 0)

\* row i of the three streams of a large response: a rising price, volumes
\* 1..3, market caps 1..2 after a first row without market cap
LargeResponse(n, step, gap) ==
    Response([i \in 1..n |-> <<LargeTime(n, step, gap, i), i>>],
             [i \in 1..n |-> <<LargeTime(n, step, gap, i), 1 + (i % 3)>>],
             [i \in 1..n |-> <<LargeTime(n, step, gap, i),
                               IF i = 1 THEN 0 ELSE 1 + (i % 2)>>])

\* large responses: row counts from the downsampling threshold on, a
\* millisecond or ten minutes apart, with and without two days of silence
\* before the last row; and row counts around twice the threshold
LargeResponses ==
    {LargeResponse(n, step, gap) :
        <<n, step, gap>> \in (Threshold..(Threshold + MaxOver)) \X {1, 600000} \X {0, 2}}
    \cup {LargeResponse(n, 1, 0) : n \in {2 * Threshold - 1, 2 * Threshold}}

Responses == {ErrorResponse} \cup SmallResponses \cup MidResponses \cup LargeResponses

\* st.slider(min_value=1, max_value=365): both sides of days > 7
DaysChoices == {ShortRange, ShortRange + 1}

(***************************************************************************)
(* main as a state machine                                                 *)
(***************************************************************************)
VARIABLES
    pc,         \* the stage main has reached
    days,       \* the slider value
    coin_data,  \* get_coin_data's result: None or the dict (its "rsi" key)
    data,       \* the market_chart response get_historical_data received
    joined,     \* get_historical_data's df after line 50
    df,         \* main's df
    out,        \* the page elements written so far, in order
    trade_signal, \* the headline trade signal, "" while none is shown
    ascending,  \* the radio choice of the table order
    df_table,   \* the signal table of lines 150-154, in the order of df
    dataframe   \* the sorted table's first rows, handed to st.dataframe

vars == <<pc, days, coin_data, data, joined, df, out, trade_signal, ascending,
          df_table, dataframe>>

None == [k |-> "none", n |-> 0, d |-> 1]

\* mutant of Empty: a test for None, which a DataFrame never is
EmptyIsNone(frame) == FALSE

\* df.empty
Empty(frame) == Len(frame) = 0

Init ==
    /\ pc = "start"
    /\ days = 30
    /\ coin_data = None
    /\ data = NoResponse
    /\ joined = <<>>
    /\ df = <<>>
    /\ out = <<>>
    /\ trade_signal = ""
    /\ ascending = FALSE
    /\ df_table = <<>>
    /\ dataframe = <<>>

\* lines 84-93 when get_coin_data fails: it reports the error and main
\* returns
CoinDataFailed ==
    /\ pc = "start"
    /\ \E d \in DaysChoices : days' = d
    /\ coin_data' = None
    /\ out' = out \o <<"coin_error">>
    /\ pc' = "done"
    /\ UNCHANGED <<data, joined, df, trade_signal, ascending, df_table, dataframe>>

\* lines 84-106: the widgets and the summary of the coin
CoinDataShown ==
    /\ pc = "start"
    /\ \E d \in DaysChoices : days' = d
    /\ coin_data' = [rsi |-> None]
    /\ out' = out \o <<"summary">>
    /\ pc' = "coin"
    /\ UNCHANGED <<data, joined, df, trade_signal, ascending, df_table, dataframe>>

\* line 108: get_historical_data(selected_coin, days).  A failed request or
\* an error payload raises inside the try block; the handler reports it and
\* returns an empty DataFrame.
GetHistoricalData ==
    /\ pc = "coin"
    /\ \E resp \in Responses :
        /\ data' = resp
        /\ joined' = IF resp.status = "ok" THEN JoinFrames(resp) ELSE <<>>
        /\ df' = IF resp.status = "ok" THEN Downsample(joined', days) ELSE <<>>
        /\ out' = IF resp.status = "ok" THEN out ELSE out \o <<"history_error">>
    /\ pc' = "history"
    /\ UNCHANGED <<days, coin_data, trade_signal, ascending, df_table, dataframe>>

\* lines 109-111
NoData ==
    /\ pc = "history"
    /\ Empty(df)
    /\ out' = out \o <<"no_data">>
    /\ pc' = "done"
    /\ UNCHANGED <<days, coin_data, data, joined, df, trade_signal, ascending, df_table, dataframe>>

\* df["RSI"] = rsi: the array is assigned by position
WithRsi(frame, rsi) == Array([i \in 1..Len(frame) |-> frame[i] @@ [RSI |-> rsi[i]]])

\* lines 113-114
ComputeRsi ==
    /\ pc = "history"
    /\ ~Empty(df)
    /\ df' = WithRsi(df, CalculateRsi(Column(df, "price"), Period))
    /\ coin_data' = [rsi |-> IF Empty(df') THEN None ELSE df'[Len(df')].RSI]
    /\ pc' = "rsi"
    /\ UNCHANGED <<days, data, joined, out, trade_signal, ascending, df_table, dataframe>>

\* lines 116-123
TradeSignal ==
    /\ pc = "rsi"
    /\ out' = IF coin_data.rsi # None THEN out \o <<"rsi", "trade_signal">> ELSE out
    /\ trade_signal' = IF coin_data.rsi # None THEN Signal(coin_data.rsi) ELSE ""
    /\ pc' = "signal"
    /\ UNCHANGED <<days, coin_data, data, joined, df, ascending, df_table, dataframe>>

\* lines 125-145
PlotChart ==
    /\ pc = "signal"
    /\ out' = out \o <<"chart">>
    /\ pc' = "chart"
    /\ UNCHANGED <<days, coin_data, data, joined, df, trade_signal, ascending, df_table, dataframe>>

\* lines 147-161
SignalTable ==
    /\ pc = "chart"
    /\ \E asc \in BOOLEAN :
        /\ ascending' = asc
        /\ df_table' = TableRows(df)
        /\ dataframe' = HeadRowsOf(SortValues(df_table', asc), HeadRows)
    /\ out' = out \o <<"table">>
    /\ pc' = "done"
    /\ UNCHANGED <<days, coin_data, data, joined, df, trade_signal>>

Next ==
    \/ CoinDataFailed
    \/ CoinDataShown
    \/ GetHistoricalData
    \/ NoData
    \/ ComputeRsi
    \/ TradeSignal
    \/ PlotChart
    \/ SignalTable

Spec == Init /\ [][Next]_vars

(***************************************************************************)
(* Properties                                                              *)
(***************************************************************************)
\* get_historical_data has just returned from its try block
Returned == pc = "history" /\ data.status = "ok"

\* the timestamps (epoch ms) of a raw stream
RawTimes(stream) == {stream[i][1] : i \in 1..Len(stream)}

\* the timestamps that occur in all three raw streams
CommonTimes ==
    RawTimes(data.prices) \cap RawTimes(data.total_volumes) \cap RawTimes(data.market_caps)

\* the path get_historical_data took through lines 53-63
DailyPath == Len(joined) > 1000 /\ days > 7

StridePath == Len(joined) > 1000 /\ ~(days > 7)

\* rows 0, k, 2k, ... of `rows`, in their order
IsStrideOf(out_rows, rows, k) ==
    /\ Len(out_rows) = (Len(rows) + k - 1) \div k
    /\ \A j \in 1..Len(out_rows) : out_rows[j] = rows[(j - 1) * k + 1]

\* C1: the joined series has at most as many rows as the shortest of the
\* three raw streams, also when a timestamp repeats within a stream.
C1_JoinRowCountBound ==
    Returned =>
        /\ Len(joined) <= Len(data.prices)
        /\ Len(joined) <= Len(data.total_volumes)
        /\ Len(joined) <= Len(data.market_caps)

\* C2 as stated: on every path, every row of the returned series carries a
\* timestamp that occurs in all three raw streams.
C2_TimesInAllInputsEveryPath ==
    Returned => {Epoch(df[i].time) : i \in 1..Len(df)} \subseteq CommonTimes

\* C2 amended: without daily aggregation (no downsampling, stride) every
\* returned timestamp occurs in all three raw streams; a daily-aggregated
\* row carries the start of a calendar day between the days of the earliest
\* and the latest common timestamp.
C2_TimesInAllInputs ==
    Returned =>
        IF DailyPath
        THEN /\ {df[i].time.ms : i \in 1..Len(df)} \subseteq {0}
             /\ {df[i].time.day : i \in 1..Len(df)} \subseteq
                    (SetMin({t \div MsPerDay : t \in CommonTimes}) ..
                     SetMax({t \div MsPerDay : t \in CommonTimes}))
        ELSE {Epoch(df[i].time) : i \in 1..Len(df)} \subseteq CommonTimes

\* a returned row, from a stream with an unmatched timestamp, whose time is
\* one of the common timestamps
C2_Witness ==
    /\ Returned
    /\ ~DailyPath
    /\ Len(df) > 0
    /\ RawTimes(data.prices) # CommonTimes
    /\ {Epoch(df[i].time) : i \in 1..Len(df)} = CommonTimes

\* volume / market_cap * 100 of a row whose market cap is a non-zero number
RatioHolds(row) ==
    (IsNum(row.market_cap) /\ row.market_cap.n # 0 /\ IsNum(row.volume)) =>
        row.volume_percent_mc =
            Num(row.volume.n * row.market_cap.d * 100, row.volume.d * row.market_cap.n)

\* C3 as stated: every returned row, daily-aggregated rows included, has
\* volume_percent_mc = volume / market_cap * 100 unless its market cap is 0.
C3_RatioEveryRow == Returned => \A i \in 1..Len(df) : RatioHolds(df[i])

\* the daily rows carry the mean of the ratios of their day's joined rows
DailyRatioIsMean(g) ==
    \A k \in 1..Len(df) :
        df[k].volume_percent_mc =
            AggMean(joined, "volume_percent_mc", Matches(g, df[k].time.day))

\* C3 amended: every row returned without daily aggregation has
\* volume_percent_mc = volume / market_cap * 100 unless its market cap is 0;
\* a daily-aggregated row carries the mean of the ratios of its day's rows.
C3_Ratio ==
    Returned =>
        IF DailyPath
        THEN DailyRatioIsMean(GroupByDay(joined))
        ELSE \A i \in 1..Len(df) : RatioHolds(df[i])

\* rows with a non-zero market cap and a ratio above 100 and below 100, and
\* a row without market cap whose ratio is infinite
C3_Witness ==
    /\ Returned
    /\ ~DailyPath
    /\ \E i \in 1..Len(df) : df[i].market_cap = I(2) /\ df[i].volume_percent_mc = I(50)
    /\ \E i \in 1..Len(df) : df[i].market_cap = I(1) /\ df[i].volume_percent_mc = I(300)
    /\ \E i \in 1..Len(df) : df[i].market_cap = I(0) /\ df[i].volume_percent_mc = Inf(1)

\* C4: every RSI value that is defined lies in [0, 100].
C4_RsiBounds ==
    pc = "rsi" =>
        \A i \in 1..Len(df) :
            ~IsNaN(df[i].RSI) => FLe(I(0), df[i].RSI) /\ FLe(df[i].RSI, I(100))

\* an RSI column longer than the period with values 0, 100 and in between
C4_Witness ==
    /\ pc = "rsi"
    /\ Len(df) > Period
    /\ \E i \in 1..Len(df) : df[i].RSI = I(0)
    /\ \E i \in 1..Len(df) : df[i].RSI = I(100)
    /\ \E i \in 1..Len(df) : FLt(I(0), df[i].RSI) /\ FLt(df[i].RSI, I(100))

\* no price of the window ending at row i is below the price before it: the
\* rolling average loss of row i is 0 (row 1 has no delta)
NoLossInWindow(i) ==
    \A j \in (IF i > 14 THEN i - 13 ELSE 1)..i :
        j = 1 \/ ~FLt(df[j].price, df[j - 1].price)

\* C5: RSI is exactly 100 at every row whose rolling average loss is 0: at
\* row 0, at every row of a strictly increasing price sequence and at every
\* row of a constant one.
C5_RsiSaturates ==
    pc = "rsi" =>
        /\ \A i \in 1..Len(df) : NoLossInWindow(i) => df[i].RSI = I(100)
        /\ df[1].RSI = I(100)
        /\ (\A j \in 2..Len(df) : FLt(df[j - 1].price, df[j].price)) =>
               \A i \in 1..Len(df) : df[i].RSI = I(100)
        /\ (\A j \in 2..Len(df) : df[j - 1].price = df[j].price) =>
               \A i \in 1..Len(df) : df[i].RSI = I(100)

\* a fall at row 2 that has left the window of the last row: RSI is below
\* 100 while the fall is in the window and 100 again after it
C5_Witness ==
    /\ pc = "rsi"
    /\ Len(df) > Period + 1
    /\ FLt(df[2].price, df[1].price)
    /\ FLt(df[Period + 1].RSI, I(100))
    /\ df[Len(df)].RSI = I(100)

\* C6: with more than 1000 joined rows and days > 7 the returned series has
\* exactly one row for every calendar day from the day of the earliest joined
\* row to the day of the latest one (the days the joined rows span, a day
\* without rows included), and no other row.
C6_OneRowPerDay ==
    (Returned /\ DailyPath) =>
        /\ Len(df) = SetMax({joined[i].time.day : i \in 1..Len(joined)})
                     - SetMin({joined[i].time.day : i \in 1..Len(joined)}) + 1
        /\ \A k \in 1..Len(df) :
               df[k].time =
                   [day |-> SetMin({joined[i].time.day : i \in 1..Len(joined)}) + k - 1,
                    ms  |-> 0]

\* a daily series of several days, one of them without joined rows
C6_Witness ==
    /\ Returned
    /\ DailyPath
    /\ Len(df) >= 3
    /\ \E k \in 1..Len(df) : IsNaN(df[k].price)
    /\ \E k \in 1..Len(df) : IsNum(df[k].price)

\* C7 as stated: for days <= 7 and every joined row count n the returned
\* series is the joined rows 0, k, 2k, ... with k = n div 1000 + 1.
C7_StrideEveryCount ==
    (Returned /\ ~(days > 7)) =>
        IsStrideOf(df, joined, Len(joined) \div 1000 + 1)

\* C7 amended: for days <= 7 the returned series is the joined rows 0, k,
\* 2k, ... with k = n div 1000 + 1 when n > 1000, and all joined rows
\* unchanged when n <= 1000.
C7_Stride ==
    (Returned /\ ~(days > 7)) =>
        IF Len(joined) > 1000
        THEN IsStrideOf(df, joined, Len(joined) \div 1000 + 1)
        ELSE df = joined

\* a series strided by 3
C7_Witness ==
    /\ Returned
    /\ ~(days > 7)
    /\ Len(joined) = 2000
    /\ Len(df) = 667
    /\ df[667] = joined[1999]

\* C8: when the join has no rows, get_historical_data returns an empty
\* series without raising, and main reports "no data" and returns: no RSI,
\* no trade signal, no chart and no table.
C8_EmptyJoinIsNoData ==
    (pc \notin {"start", "coin"} /\ data.status = "ok" /\ Len(joined) = 0) =>
        /\ Empty(df)
        /\ pc \in {"history", "done"}
        /\ pc = "history" => out = <<"summary">>
        /\ pc = "done" => out = <<"summary", "no_data">>
        /\ coin_data.rsi = None
        /\ trade_signal = ""
        /\ df_table = <<>>
        /\ dataframe = <<>>

\* main has returned after three non-empty streams that share no timestamp
C8_Witness ==
    /\ pc = "done"
    /\ data.status = "ok"
    /\ Len(data.prices) > 0 /\ Len(data.total_volumes) > 0 /\ Len(data.market_caps) > 0
    /\ Len(joined) = 0
    /\ out = <<"summary", "no_data">>

\* the label of an RSI value: Buy iff below 30, Sell iff above 70, Hold
\* otherwise
LabelOk(label, rsi) ==
    /\ label \in {"Mua", "Ban", "Giu"}
    /\ label = "Mua" <=> FLt(rsi, I(30))
    /\ label = "Ban" <=> FGt(rsi, I(70))
    /\ label = "Giu" <=> (~FLt(rsi, I(30)) /\ ~FGt(rsi, I(70)))

\* C9: every row of the signal table carries the label of its unrounded
\* RSI, and the headline trade signal is the label of the last row's RSI;
\* the rows displayed are rows of that table.
C9_SignalLabels ==
    /\ pc \in {"signal", "chart"} => LabelOk(trade_signal, df[Len(df)].RSI)
    /\ (pc = "done" /\ ~Empty(df)) =>
           /\ LabelOk(trade_signal, df[Len(df)].RSI)
           /\ Len(df_table) = Len(df)
           /\ \A i \in 1..Len(df) :
                  /\ df_table[i].time = df[i].time
                  /\ LabelOk(df_table[i].Signal, df[i].RSI)
           /\ {dataframe[k] : k \in 1..Len(dataframe)} \subseteq
                  {df_table[i] : i \in 1..Len(df_table)}

\* a table with a Buy, a Sell and a Hold row, the Hold row with an RSI of
\* exactly 30
C9_Witness ==
    /\ pc = "done"
    /\ \E i \in 1..Len(df_table) : df_table[i].Signal = "Mua"
    /\ \E i \in 1..Len(df_table) : df_table[i].Signal = "Ban"
    /\ \E i \in 1..Len(df_table) : df[i].RSI = I(30) /\ df_table[i].Signal = "Giu"

\* C10: with more than 1000 joined rows and days <= 7 the returned series
\* has at least 1 and at most 1000 rows and starts with the first joined row.
C10_StrideRowCount ==
    (Returned /\ StridePath) =>
        /\ Len(df) >= 1
        /\ Len(df) <= 1000
        /\ df[1] = joined[1]

\* 1999 joined rows strided by 2 into exactly 1000 rows
C10_Witness ==
    /\ Returned
    /\ StridePath
    /\ Len(joined) = 1999
    /\ Len(df) = 1000
    /\ df[1] = joined[1]

=============================================================================
